---- MODULE Spec2Model ----
(***************************************************************************)
(* A model of mpmc::queue::Queue<T> (src/src/queue.rs): a VecDeque behind  *)
(* one Mutex with two Condvars, nonempty and nonfull.  Every statement of  *)
(* put and take that touches shared state is one action; a thread's        *)
(* position in put or take is pc[t].                                       *)
(*                                                                         *)
(* The queue never inspects the values it carries, so the value of a put   *)
(* is a tag <<thread, calls that thread still had to make>>: all values    *)
(* are distinct and any other valuation is an image of this one.           *)
(***************************************************************************)
EXTENDS Integers, Sequences, FiniteSets, Bags, TLC

\* Bounds of the model.
NumThreads == 3
MaxCount == 2
MaxOps == 3
MaxCalls == 4
LiveOps == 2
OrderCalls == 6
MaxSpurious == 1

Threads == 1..NumThreads
NoThread == 0
NoValue == <<>>

VARIABLES
  qstate,         \* "new" before with_capacity ran, then "ready" or "aborted"
  count,          \* the argument of Queue::with_capacity
  capacity,       \* what guard.capacity() answers
  items,          \* the VecDeque behind the mutex
  lock,           \* the thread holding the MutexGuard, or NoThread
  poisoned,       \* the mutex's poison flag
  nonempty,       \* threads parked in nonempty.wait
  nonfull,        \* threads parked in nonfull.wait
  pc,             \* each thread's position in put or take
  value,          \* put's argument, then take's result, per thread
  role,           \* what a thread calls: put only, take only, or both
  todo,           \* calls a thread still has to make
  budget,         \* calls all threads together may still make
  spurious,       \* spurious wake-ups so far
  put_hist,       \* history: values in the order they were appended
  take_hist,      \* history: values in the order they were popped
  puts_returned,  \* history: put calls that returned
  takes_returned, \* history: take calls that returned
  at_limit,       \* history: the call was made with count items (put), none (take)
  served,         \* history: a call of the other kind returned since the call
  waited,         \* history: the thread's current call has parked
  called          \* history: the threads that have called put or take

vars == <<qstate, count, capacity, items, lock, poisoned, nonempty, nonfull,
          pc, value, role, todo, budget, spurious, put_hist, take_hist,
          puts_returned, takes_returned, at_limit, served, waited, called>>

queue_vars == <<qstate, count, capacity>>
hist_vars == <<put_hist, take_hist, puts_returned, takes_returned>>

----------------------------------------------------------------------------
\* The standard library's part.

RECURSIVE NextPowerOfTwo(_)
NextPowerOfTwo(n) == IF n <= 1 THEN 1 ELSE 2 * NextPowerOfTwo((n + 1) \div 2)

Max(a, b) == IF a >= b THEN a ELSE b

\* VecDeque::with_capacity(n) makes room for AT LEAST n elements: the ring
\* buffer either holds exactly n, or is rounded up to a power of two with one
\* slot kept free, depending on the standard library the crate is built with.
VecDequeCapacity(n) == {n, NextPowerOfTwo(Max(n + 1, 2)) - 1}

\* VecDeque::push_back on a full buffer reallocates it to twice the size
\* before it appends; on any other buffer the capacity stays.
VecDequeGrow(s, cap) ==
  IF Len(s) < cap THEN {cap} ELSE {Max(2 * cap, 1), 2 * cap + 1}

\* push_front where push_back was meant.
PushFront(s, v) == <<v>> \o s
PushBack(s, v) == Append(s, v)
\* A pop that hands back the newest element and drops the oldest.
PopFrontNewest(s) == s[Len(s)]
PopFrontValue(s) == Head(s)
\* A front() that leaves the element in the buffer.
PopFrontKeeps(s) == s
PopFrontRest(s) == Tail(s)

\* A notify_one that wakes nobody.
NotifyNone(waiters) == {NoThread}
\* A notify_one whose signal may get lost although a thread is parked.
NotifyMaybe(waiters) == waiters \cup {NoThread}
\* Condvar::notify_one: the waiter it wakes, any of the parked ones.
NotifyOne(waiters) == IF waiters = {} THEN {NoThread} ELSE waiters

\* A wait() that returns without taking the mutex again.
RelockSkips(p) == IF p = "p_wait" THEN "p_check" ELSE "t_check"
\* A thread leaving Condvar::wait has to take the mutex again.
Relock(p) == IF p = "p_wait" THEN "p_lock" ELSE "t_lock"

\* A wake-up that is lost: the waiter leaves the condition's list and sleeps on.
WakeLost(pcs, w) == pcs
Wake(pcs, w) == IF w = NoThread THEN pcs ELSE [pcs EXCEPT ![w] = Relock(pcs[w])]

\* Positions of a thread inside put and take.

InPut == {"p_lock", "p_check", "p_wait", "p_push", "p_notify", "p_ret"}
InTake == {"t_lock", "t_check", "t_wait", "t_notify", "t_pop", "t_ret"}

----------------------------------------------------------------------------
\* The queue's own conditions.

\* The assertion written as count >= 0.
WithCapacityAssertWeak(n) == n >= 0
WithCapacityAssert(n) == n > 0
\* The loop of put that lets a put through on a full buffer.
PutMustWaitLate(s, cap) == Len(s) > cap
\* The loop of put entered one element early.
PutMustWaitEarly(s, cap) == Len(s) + 1 >= cap
PutMustWait(s, cap) == Len(s) = cap
\* Where put and take go on when wait() has handed the lock back: at the test
\* of the while loop.  With an if for the while, past it.
PutAfterWaitOnce == "p_push"
PutAfterWait == "p_check"
TakeAfterWaitOnce == "t_notify"
TakeAfterWait == "t_check"
\* The loop of take that parks while one item is left.
TakeMustWaitOne(s) == Len(s) <= 1
\* The loop of take with its condition inverted.
TakeMustWaitInverted(s) == Len(s) # 0
\* The loop of take with a comparison no length satisfies.
TakeMustWaitNever(s) == Len(s) < 0
TakeMustWait(s) == Len(s) = 0

----------------------------------------------------------------------------

InitQueue ==
  /\ qstate = "new"
  /\ count \in 0..MaxCount
  /\ capacity = 0
  /\ items = <<>>
  /\ lock = NoThread
  /\ poisoned = FALSE
  /\ nonempty = {}
  /\ nonfull = {}
  /\ pc = [t \in Threads |-> "idle"]
  /\ value = [t \in Threads |-> NoValue]
  /\ spurious = 0
  /\ put_hist = <<>>
  /\ take_hist = <<>>
  /\ puts_returned = 0
  /\ takes_returned = 0
  /\ at_limit = [t \in Threads |-> FALSE]
  /\ served = [t \in Threads |-> FALSE]
  /\ waited = [t \in Threads |-> FALSE]
  /\ called = {}

\* Threads free to call put and take in any order: up to MaxOps calls each,
\* MaxCalls calls in all.
Init ==
  /\ InitQueue
  /\ role = [t \in Threads |-> "mixed"]
  /\ todo = [t \in Threads |-> MaxOps]
  /\ budget = MaxCalls

RECURSIVE SumTo(_, _)
SumTo(f, n) == IF n = 0 THEN 0 ELSE f[n] + SumTo(f, n - 1)

\* Producer threads and consumer threads, each with its number of calls: up to
\* LiveOps calls each, MaxCalls calls in all.  Threads differ in nothing but
\* their role and their calls, so they are numbered producers first, and
\* within a role the thread with more calls first.
LiveInit ==
  /\ InitQueue
  /\ role \in [Threads -> {"producer", "consumer"}]
  /\ todo \in {f \in [Threads -> 0..LiveOps] : SumTo(f, NumThreads) <= MaxCalls}
  /\ \A t \in Threads \ {NumThreads} :
       /\ role[t] = "consumer" => role[t + 1] = "consumer"
       /\ role[t] = role[t + 1] => todo[t] >= todo[t + 1]
  /\ budget = MaxCalls

\* Among threads that have not called yet and have the same role and the same
\* calls to make, the one with the lowest number calls first: they are
\* interchangeable until then.
FirstCallInOrder(t) ==
  \/ t \in called
  \/ \A u \in 1..(t - 1) :
       u \in called \/ role[u] # role[t] \/ todo[u] # todo[t]

----------------------------------------------------------------------------
\* Queue::with_capacity

WithCapacity ==
  /\ qstate = "new"
  /\ IF WithCapacityAssert(count)
       THEN /\ qstate' = "ready"
            /\ capacity' \in VecDequeCapacity(count)
       ELSE /\ qstate' = "aborted"
            /\ capacity' = capacity
  /\ UNCHANGED <<called, budget, count, items, lock, poisoned, nonempty, nonfull, pc, value,
                 role, todo, spurious, hist_vars, at_limit, served, waited>>

----------------------------------------------------------------------------
\* Queue::put

PutCall(t) ==
  /\ qstate = "ready"
  /\ pc[t] = "idle"
  /\ role[t] \in {"producer", "mixed"}
  /\ todo[t] > 0
  /\ budget > 0
  /\ FirstCallInOrder(t)
  /\ pc' = [pc EXCEPT ![t] = "p_lock"]
  /\ value' = [value EXCEPT ![t] = <<t, todo[t]>>]
  /\ todo' = [todo EXCEPT ![t] = @ - 1]
  /\ budget' = budget - 1
  /\ called' = called \cup {t}
  /\ at_limit' = [at_limit EXCEPT ![t] = Len(items) >= count]
  /\ UNCHANGED <<queue_vars, items, lock, poisoned, nonempty, nonfull, role,
                 spurious, hist_vars, served, waited>>

\* data.items.lock().unwrap(), and the re-acquisition at the end of wait().unwrap()
PutLock(t) ==
  /\ pc[t] = "p_lock"
  /\ lock = NoThread
  /\ IF poisoned
       THEN /\ pc' = [pc EXCEPT ![t] = "panicked"]
            /\ lock' = lock
       ELSE /\ pc' = [pc EXCEPT ![t] = IF waited[t] THEN PutAfterWait ELSE "p_check"]
            /\ lock' = t
  /\ UNCHANGED <<called, budget, queue_vars, items, poisoned, nonempty, nonfull, value, role,
                 todo, spurious, hist_vars, at_limit, served, waited>>

\* while guard.len() == guard.capacity() { guard = data.nonfull.wait(guard) }
PutCheck(t) ==
  /\ pc[t] = "p_check"
  /\ lock = t
  /\ IF PutMustWait(items, capacity)
       THEN /\ pc' = [pc EXCEPT ![t] = "p_wait"]
            /\ nonfull' = nonfull \cup {t}
            /\ lock' = NoThread
            /\ waited' = [waited EXCEPT ![t] = TRUE]
       ELSE /\ pc' = [pc EXCEPT ![t] = "p_push"]
            /\ UNCHANGED <<nonfull, lock, waited>>
  /\ UNCHANGED <<called, budget, queue_vars, items, poisoned, nonempty, value, role, todo,
                 spurious, hist_vars, at_limit, served>>

\* guard.push_back(value)
PutPush(t) ==
  /\ pc[t] = "p_push"
  /\ lock = t
  /\ items' = PushBack(items, value[t])
  /\ capacity' \in VecDequeGrow(items, capacity)
  /\ put_hist' = Append(put_hist, value[t])
  /\ pc' = [pc EXCEPT ![t] = "p_notify"]
  /\ UNCHANGED <<called, budget, qstate, count, lock, poisoned, nonempty, nonfull, value, role,
                 todo, spurious, take_hist, puts_returned, takes_returned,
                 at_limit, served, waited>>

\* data.nonempty.notify_one()
PutNotify(t) ==
  /\ pc[t] = "p_notify"
  /\ lock = t
  /\ \E w \in NotifyOne(nonempty) :
       /\ nonempty' = nonempty \ {w}
       /\ pc' = [Wake(pc, w) EXCEPT ![t] = "p_ret"]
  /\ UNCHANGED <<called, budget, queue_vars, items, lock, poisoned, nonfull, value, role, todo,
                 spurious, hist_vars, at_limit, served, waited>>

\* the guard is dropped at the end of put
PutReturn(t) ==
  /\ pc[t] = "p_ret"
  /\ lock = t
  /\ lock' = NoThread
  /\ pc' = [pc EXCEPT ![t] = "idle"]
  /\ value' = [value EXCEPT ![t] = NoValue]
  /\ puts_returned' = puts_returned + 1
  /\ at_limit' = [at_limit EXCEPT ![t] = FALSE]
  /\ served' = [u \in Threads |-> u # t /\ (served[u] \/ pc[u] \in InTake)]
  /\ waited' = [waited EXCEPT ![t] = FALSE]
  /\ UNCHANGED <<called, budget, queue_vars, items, poisoned, nonempty, nonfull, role, todo,
                 spurious, put_hist, take_hist, takes_returned>>

----------------------------------------------------------------------------
\* Queue::take

TakeCall(t) ==
  /\ qstate = "ready"
  /\ pc[t] = "idle"
  /\ role[t] \in {"consumer", "mixed"}
  /\ todo[t] > 0
  /\ budget > 0
  /\ FirstCallInOrder(t)
  /\ pc' = [pc EXCEPT ![t] = "t_lock"]
  /\ todo' = [todo EXCEPT ![t] = @ - 1]
  /\ budget' = budget - 1
  /\ called' = called \cup {t}
  /\ at_limit' = [at_limit EXCEPT ![t] = Len(items) = 0]
  /\ UNCHANGED <<queue_vars, items, lock, poisoned, nonempty, nonfull, value,
                 role, spurious, hist_vars, served, waited>>

\* data.items.lock().unwrap(), and the re-acquisition at the end of wait().unwrap()
TakeLock(t) ==
  /\ pc[t] = "t_lock"
  /\ lock = NoThread
  /\ IF poisoned
       THEN /\ pc' = [pc EXCEPT ![t] = "panicked"]
            /\ lock' = lock
       ELSE /\ pc' = [pc EXCEPT ![t] = IF waited[t] THEN TakeAfterWait ELSE "t_check"]
            /\ lock' = t
  /\ UNCHANGED <<called, budget, queue_vars, items, poisoned, nonempty, nonfull, value, role,
                 todo, spurious, hist_vars, at_limit, served, waited>>

\* while guard.is_empty() { guard = data.nonempty.wait(guard) }
TakeCheck(t) ==
  /\ pc[t] = "t_check"
  /\ lock = t
  /\ IF TakeMustWait(items)
       THEN /\ pc' = [pc EXCEPT ![t] = "t_wait"]
            /\ nonempty' = nonempty \cup {t}
            /\ lock' = NoThread
            /\ waited' = [waited EXCEPT ![t] = TRUE]
       ELSE /\ pc' = [pc EXCEPT ![t] = "t_notify"]
            /\ UNCHANGED <<nonempty, lock, waited>>
  /\ UNCHANGED <<called, budget, queue_vars, items, poisoned, nonfull, value, role, todo,
                 spurious, hist_vars, at_limit, served>>

\* data.nonfull.notify_one()
TakeNotify(t) ==
  /\ pc[t] = "t_notify"
  /\ lock = t
  /\ \E w \in NotifyOne(nonfull) :
       /\ nonfull' = nonfull \ {w}
       /\ pc' = [Wake(pc, w) EXCEPT ![t] = "t_pop"]
  /\ UNCHANGED <<called, budget, queue_vars, items, lock, poisoned, nonempty, value, role, todo,
                 spurious, hist_vars, at_limit, served, waited>>

\* guard.pop_front().unwrap(): a panic here unwinds through the guard, which
\* poisons the mutex and unlocks it
TakePop(t) ==
  /\ pc[t] = "t_pop"
  /\ lock = t
  /\ IF Len(items) = 0
       THEN /\ pc' = [pc EXCEPT ![t] = "panicked"]
            /\ poisoned' = TRUE
            /\ lock' = NoThread
            /\ UNCHANGED <<items, value, take_hist>>
       ELSE /\ pc' = [pc EXCEPT ![t] = "t_ret"]
            /\ value' = [value EXCEPT ![t] = PopFrontValue(items)]
            /\ items' = PopFrontRest(items)
            /\ take_hist' = Append(take_hist, PopFrontValue(items))
            /\ UNCHANGED <<poisoned, lock>>
  /\ UNCHANGED <<called, budget, queue_vars, nonempty, nonfull, role, todo, spurious, put_hist,
                 puts_returned, takes_returned, at_limit, served, waited>>

\* the guard is dropped at the end of take, the value goes to the caller
TakeReturn(t) ==
  /\ pc[t] = "t_ret"
  /\ lock = t
  /\ lock' = NoThread
  /\ pc' = [pc EXCEPT ![t] = "idle"]
  /\ value' = [value EXCEPT ![t] = NoValue]
  /\ takes_returned' = takes_returned + 1
  /\ at_limit' = [at_limit EXCEPT ![t] = FALSE]
  /\ served' = [u \in Threads |-> u # t /\ (served[u] \/ pc[u] \in InPut)]
  /\ waited' = [waited EXCEPT ![t] = FALSE]
  /\ UNCHANGED <<called, budget, queue_vars, items, poisoned, nonempty, nonfull, role, todo,
                 spurious, put_hist, take_hist, puts_returned>>

----------------------------------------------------------------------------
\* Condvar::wait may return without any notify.

SpuriousWake(t) ==
  /\ spurious < MaxSpurious
  /\ pc[t] \in {"p_wait", "t_wait"}
  /\ spurious' = spurious + 1
  /\ nonempty' = nonempty \ {t}
  /\ nonfull' = nonfull \ {t}
  /\ pc' = Wake(pc, t)
  /\ UNCHANGED <<called, budget, queue_vars, items, lock, poisoned, value, role, todo,
                 hist_vars, at_limit, served, waited>>

----------------------------------------------------------------------------

ThreadStep(t) ==
  \/ PutCall(t)
  \/ PutLock(t)
  \/ PutCheck(t)
  \/ PutPush(t)
  \/ PutNotify(t)
  \/ PutReturn(t)
  \/ TakeCall(t)
  \/ TakeLock(t)
  \/ TakeCheck(t)
  \/ TakeNotify(t)
  \/ TakePop(t)
  \/ TakeReturn(t)

Next ==
  \/ WithCapacity
  \/ \E t \in Threads : ThreadStep(t)
  \/ \E t \in Threads : SpuriousWake(t)

Spec == Init /\ [][Next]_vars

\* Every thread that can take a step of put or take eventually takes one, and
\* the constructor runs; a spurious wake-up may never happen.
Fairness ==
  /\ WF_vars(WithCapacity)
  /\ \A t \in Threads : WF_vars(ThreadStep(t))

LiveSpec == LiveInit /\ [][Next]_vars /\ Fairness

\* Several producers and a single consumer: the last thread takes, up to
\* MaxOps times, all others put, up to LiveOps times each, OrderCalls calls in
\* all.
OrderInit ==
  /\ InitQueue
  /\ role = [t \in Threads |-> IF t = NumThreads THEN "consumer" ELSE "producer"]
  /\ todo = [t \in Threads |-> IF t = NumThreads THEN MaxOps ELSE LiveOps]
  /\ budget = OrderCalls

OrderSpec == OrderInit /\ [][Next]_vars

----------------------------------------------------------------------------
\* put past its loop, take past its loop: the call will return.
PutPastLoop == {"p_push", "p_notify", "p_ret"}
TakePastLoop == {"t_notify", "t_pop", "t_ret"}

Range(s) == {s[i] : i \in DOMAIN s}
SeqToBag(s) == [v \in Range(s) |-> Cardinality({i \in DOMAIN s : s[i] = v})]
IsPrefix(s, r) == Len(s) <= Len(r) /\ \A i \in DOMAIN s : s[i] = r[i]

----------------------------------------------------------------------------
\* C1. Capacity invariant: the number of buffered items is at every instant
\* between 0 and count, the value passed to with_capacity, whatever larger
\* capacity the buffer allocated.
CapacityInvariant == 0 <= Len(items) /\ Len(items) <= count

\* C2. FIFO order: ordering puts by their append and takes by their pop, the
\* n-th value popped is the n-th value appended; and the values of one thread
\* are appended in the order that thread passed them to put, so that with one
\* producer and one consumer the values come out as they were passed in.
FifoOrder ==
  /\ IsPrefix(take_hist, put_hist)
  /\ \A i, j \in DOMAIN put_hist :
       (i < j /\ put_hist[i][1] = put_hist[j][1]) => put_hist[i][2] > put_hist[j][2]

\* Two values of different producers were buffered together, and both have
\* been taken.
FifoWitness ==
  /\ Len(take_hist) = 2
  /\ take_hist[1][1] # take_hist[2][1]
  /\ \E t \in Threads : pc[t] = "t_ret" /\ ~waited[t] /\ ~at_limit[t]

\* C3. Conservation: appended minus popped is what is buffered; the values
\* taken together with the values buffered are the values put, each once; and
\* whenever no thread is inside its critical section, returned puts minus
\* returned takes is the number of buffered items.
Conservation ==
  /\ Len(put_hist) - Len(take_hist) = Len(items)
  /\ SeqToBag(take_hist) (+) SeqToBag(items) = SeqToBag(put_hist)
  /\ \A i, j \in DOMAIN take_hist : take_hist[i] = take_hist[j] => i = j
  /\ lock = NoThread => puts_returned - takes_returned = Len(items)

\* Three puts of at least two producers and a take have returned, two items
\* are left.
ConservationWitness ==
  /\ lock = NoThread
  /\ puts_returned = 3
  /\ takes_returned = 1
  /\ Len(items) = 2
  /\ Cardinality({put_hist[i][1] : i \in DOMAIN put_hist}) >= 2

\* C4. Capacity blocking: a put called when the queue held count items (the
\* capacity given at construction) gets past its loop only after a take that
\* had not returned when put was called has returned.
CapacityBlocking ==
  \A t \in Threads :
    (pc[t] \in PutPastLoop /\ at_limit[t]) => served[t]

\* C5. Empty blocking: a take called on an empty queue gets past its loop only
\* after a put that had not returned when take was called has returned; as
\* long as no put has returned since the call and none is between its append
\* and its return, the buffer is empty.
EmptyBlocking ==
  \A t \in Threads :
    (pc[t] \in InTake /\ at_limit[t]) =>
      /\ pc[t] \in TakePastLoop => served[t]
      /\ (~served[t] /\ \A u \in Threads : pc[u] \notin {"p_notify", "p_ret"}) =>
           items = <<>>

\* A take called on an empty queue has parked, and now holds a value.
EmptyBlockingWitness ==
  \E t \in Threads :
    pc[t] = "t_ret" /\ at_limit[t] /\ waited[t] /\ value[t] # NoValue

\* C8. Rejection: with_capacity(0) ends in the failed assertion and no thread
\* ever gets to use the queue; with_capacity(count) for count > 0 never ends
\* there, and the queue it yields is empty until the first append.
Rejection ==
  /\ count = 0 =>
       /\ qstate \in {"new", "aborted"}
       /\ \A t \in Threads : pc[t] = "idle"
       /\ called = {}
       /\ items = <<>>
  /\ count > 0 =>
       /\ qstate \in {"new", "ready"}
       /\ (qstate = "ready" /\ put_hist = <<>>) => items = <<>>

\* with_capacity(0) has run.
RejectionWitness == qstate = "aborted" /\ count = 0

\* C9. Infallibility: no put or take ends in a panic, the mutex is never
\* poisoned, and the pop of take always finds an item: every thread is idle,
\* or at a step of put or take.
Infallibility ==
  /\ ~poisoned
  /\ \A t \in Threads :
       /\ pc[t] \in {"idle"} \cup InPut \cup InTake
       /\ pc[t] = "t_pop" => Len(items) > 0

\* Calls have parked, one woke without a notify, and puts and takes returned.
InfallibilityWitness ==
  /\ spurious > 0
  /\ puts_returned >= 2
  /\ takes_returned >= 1
  /\ \E t \in Threads : pc[t] = "t_pop" /\ waited[t]

\* C10. Single-threaded use: while one thread alone uses the queue, a put it
\* called with fewer than count items and a take it called with at least one
\* item never park, and what a take hands back is the oldest value not yet
\* taken; so the thread fills the queue to exactly count without blocking.
SingleThreadedUse ==
  \A t \in Threads :
    called \subseteq {t} =>
      /\ (pc[t] \in InPut /\ ~at_limit[t]) =>
           (~waited[t] /\ pc[t] # "p_wait")
      /\ (pc[t] \in InTake /\ ~at_limit[t]) =>
           (~waited[t] /\ pc[t] # "t_wait")
      /\ pc[t] = "t_ret" =>
           (value[t] = put_hist[Len(take_hist)] /\ Len(items) = Len(put_hist) - Len(take_hist))

\* One thread alone has put count = 2 values in a row, the queue was full at
\* exactly count, and its take holds the first of them.
SingleThreadedWitness ==
  \E t \in Threads :
    /\ called = {t}
    /\ count = 2
    /\ pc[t] = "t_ret"
    /\ Len(put_hist) = 2
    /\ Len(items) = 1
    /\ value[t] = put_hist[1]

----------------------------------------------------------------------------
\* Liveness, under LiveSpec.

RECURSIVE CallsOf(_, _)
CallsOf(r, n) ==
  IF n = 0 THEN 0
  ELSE (IF role[n] = r THEN todo[n] ELSE 0) + CallsOf(r, n - 1)

AllReturned == \A t \in Threads : pc[t] = "idle" /\ todo[t] = 0

\* C6. Totality with a cooperating counterpart: when the producers' put calls
\* are as many as the consumers' take calls, on a queue of any capacity >= 1,
\* every call is made and returns; waking one waiter per operation never
\* leaves a thread parked for good.
Totality ==
  (count > 0 /\ CallsOf("producer", NumThreads) = CallsOf("consumer", NumThreads))
    => <>AllReturned

\* Two producers and a consumer have made all their calls, calls have parked,
\* and everything returned.
TotalityWitness ==
  /\ AllReturned
  /\ Len(take_hist) = 2
  /\ take_hist[1][1] # take_hist[2][1]
  /\ role = [t \in Threads |-> IF t = NumThreads THEN "consumer" ELSE "producer"]
  /\ capacity = 1

\* C7. No lost wake-up: the notify of a put that finds threads parked on
\* nonempty wakes one of them, and a put about to append while threads are
\* parked on nonempty leads to that put having notified and a thread that had
\* parked in take being on its way to the lock; the same for take and the
\* threads parked on nonfull.
NoLostWakeup ==
  /\ [][\A t \in Threads :
          /\ (pc[t] = "p_notify" /\ pc'[t] = "p_ret" /\ nonempty # {}) =>
               \E w \in nonempty : w \notin nonempty' /\ pc'[w] = "t_lock"
          /\ (pc[t] = "t_notify" /\ pc'[t] = "t_pop" /\ nonfull # {}) =>
               \E w \in nonfull : w \notin nonfull' /\ pc'[w] = "p_lock"]_vars
  /\ ((\E t \in Threads : pc[t] = "p_push") /\ nonempty # {})
       ~> (\E t, w \in Threads : pc[t] = "p_ret" /\ pc[w] = "t_lock" /\ waited[w])
  /\ ((\E t \in Threads : pc[t] = "t_notify") /\ nonfull # {})
       ~> (\E t, w \in Threads : pc[t] = "t_pop" /\ pc[w] = "p_lock" /\ waited[w])

\* A put has notified while two consumers were parked: one of them is on its
\* way to the lock, the other still parked, and no wake-up was spurious.
NoLostWakeupWitness ==
  \E t, w \in Threads :
    /\ pc[t] = "p_ret"
    /\ pc[w] = "t_lock"
    /\ waited[w]
    /\ Cardinality(nonempty) = 1
    /\ spurious = 0

----------------------------------------------------------------------------
\* C11. One producer, one consumer: when one thread puts n values and another
\* takes n values from the same queue, whatever its capacity >= 1 (n may be
\* larger), both threads make all their calls and return, and the values the
\* consumer received are the values the producer put, each once.
OneProducerOneConsumer ==
  \A n \in 1..LiveOps :
    (/\ count > 0
     /\ \E p, c \in Threads :
          /\ role[p] = "producer" /\ todo[p] = n
          /\ role[c] = "consumer" /\ todo[c] = n
          /\ \A u \in Threads \ {p, c} : todo[u] = 0)
      => <>(/\ AllReturned
            /\ Len(put_hist) = n
            /\ Len(take_hist) = n
            /\ items = <<>>
            /\ SeqToBag(take_hist) = SeqToBag(put_hist))

\* One producer and one consumer are done with two values each, more than the
\* queue of capacity 1 holds at a time.
OneProducerOneConsumerWitness ==
  /\ AllReturned
  /\ Cardinality(called) = 2
  /\ capacity = 1
  /\ Len(take_hist) = 2
  /\ take_hist[1][1] = take_hist[2][1]
  /\ spurious = 0

----------------------------------------------------------------------------
\* The value of thread t's call is in the buffer as its newest element (put),
\* or has left the buffer and is held by the thread (take).
CallMutated(t) ==
  IF pc[t] \in InPut
    THEN items # <<>> /\ items[Len(items)] = value[t]
    ELSE value[t] # NoValue /\ value[t] \notin Range(items)

\* Positions after the notify of put and of take.
AfterNotify == {"p_ret", "t_pop", "t_ret"}

\* C12, as claimed. Signal ordering: a thread that has issued its notify, in
\* put or in take, has already mutated the buffer and still holds the lock.
SignalAfterMutation ==
  \A t \in Threads :
    pc[t] \in AfterNotify => (lock = t /\ CallMutated(t))

\* C12, amended. put notifies after its append, take notifies before its pop;
\* both notify with the lock held, and the lock is still held when the
\* mutation is done, so a woken thread gets the lock only after the mutation.
SignalUnderLock ==
  \A t \in Threads :
    /\ pc[t] \in AfterNotify => lock = t
    /\ pc[t] = "p_ret" => CallMutated(t)
    /\ pc[t] = "t_pop" => (~CallMutated(t) /\ items # <<>>)
    /\ pc[t] = "t_ret" => CallMutated(t)

\* A take has woken a parked producer and has not popped yet: the producer
\* waits for the lock with the buffer still full.
SignalUnderLockWitness ==
  \E t, w \in Threads :
    /\ pc[t] = "t_pop"
    /\ pc[w] = "p_lock"
    /\ waited[w]
    /\ Len(items) = capacity
    /\ spurious = 0

----------------------------------------------------------------------------
\* Threads parked on a condition.
Parked == {t \in Threads : pc[t] \in {"p_wait", "t_wait"}}

\* C13. Wake exactly one of the right kind: the notify of a put takes exactly
\* one thread off nonempty when one is parked there, and that thread goes on
\* in take; it wakes nobody else, and nobody when none is parked there. The
\* same for the notify of take, nonfull and put.
WakeExactlyOne ==
  [][\A t \in Threads :
       /\ (pc[t] = "p_notify" /\ pc'[t] = "p_ret") =>
            /\ Cardinality(Parked \ Parked') = (IF nonempty = {} THEN 0 ELSE 1)
            /\ Parked \ Parked' = nonempty \ nonempty'
            /\ \A w \in Parked \ Parked' : pc[w] = "t_wait" /\ pc'[w] = "t_lock"
            /\ nonfull' = nonfull
       /\ (pc[t] = "t_notify" /\ pc'[t] = "t_pop") =>
            /\ Cardinality(Parked \ Parked') = (IF nonfull = {} THEN 0 ELSE 1)
            /\ Parked \ Parked' = nonfull \ nonfull'
            /\ \A w \in Parked \ Parked' : pc[w] = "p_wait" /\ pc'[w] = "p_lock"
            /\ nonempty' = nonempty]_vars

\* A put has notified with two consumers parked: one is on its way to the
\* lock, the other is still parked.
WakeExactlyOneWitness ==
  \E t, w, u \in Threads :
    /\ pc[t] = "p_ret"
    /\ pc[w] = "t_lock" /\ waited[w]
    /\ pc[u] = "t_wait" /\ nonempty = {u}
    /\ spurious = 0

----------------------------------------------------------------------------
\* C14. Spurious wake-up tolerance: with wake-ups that no notify caused, and
\* notified threads that find the buffer changed again before they get the
\* lock, put still appends only to a buffer that is not full and take still
\* pops only from a buffer that is not empty; a woken thread that finds its
\* condition false parks again and leaves the buffer as it is.
SpuriousTolerance ==
  /\ [](\A t \in Threads :
          /\ pc[t] = "p_push" => Len(items) < capacity
          /\ pc[t] \in {"t_notify", "t_pop"} => Len(items) > 0
          /\ pc[t] # "panicked")
  /\ [][\A t \in Threads :
          /\ (pc[t] = "p_check" /\ waited[t] /\ Len(items) = capacity
                /\ pc'[t] # pc[t]) =>
               (pc'[t] = "p_wait" /\ t \in nonfull' /\ items' = items)
          /\ (pc[t] = "t_check" /\ waited[t] /\ Len(items) = 0
                /\ pc'[t] # pc[t]) =>
               (pc'[t] = "t_wait" /\ t \in nonempty' /\ items' = items)]_vars

\* A take that woke without a notify holds the lock, and the buffer is empty.
SpuriousToleranceWitness ==
  \E t \in Threads :
    /\ pc[t] = "t_check"
    /\ waited[t]
    /\ items = <<>>
    /\ spurious = 1
    /\ puts_returned = 0

\* C15. Suspension only when necessary: a thread parks in put only when the
\* buffer is full and in take only when it is empty, having read that with
\* the lock; a put that has the lock with the buffer not full, and a take
\* that has it with the buffer not empty, go on to the append and the pop and
\* from there to their return without parking.
SuspendOnlyWhenNeeded ==
  [][\A t \in Threads :
       /\ (pc'[t] = "p_wait" /\ pc[t] # "p_wait") =>
            (pc[t] = "p_check" /\ lock = t /\ Len(items) = capacity)
       /\ (pc'[t] = "t_wait" /\ pc[t] # "t_wait") =>
            (pc[t] = "t_check" /\ lock = t /\ Len(items) = 0)
       /\ (pc[t] = "p_check" /\ Len(items) # capacity /\ pc'[t] # pc[t]) =>
            pc'[t] = "p_push"
       /\ (pc[t] = "t_check" /\ Len(items) # 0 /\ pc'[t] # pc[t]) =>
            pc'[t] = "t_notify"
       /\ (pc[t] \in PutPastLoop /\ pc'[t] # pc[t]) =>
            pc'[t] \in PutPastLoop \cup {"idle"}
       /\ (pc[t] \in TakePastLoop /\ pc'[t] # pc[t]) =>
            pc'[t] \in TakePastLoop \cup {"idle"}]_vars

\* A producer is parked on a full buffer while a take, which got the lock
\* with the buffer not empty, is past its loop without having parked.
SuspendOnlyWhenNeededWitness ==
  \E t, u \in Threads :
    /\ pc[t] = "p_wait"
    /\ pc[u] = "t_notify"
    /\ ~waited[u]
    /\ Len(items) = capacity

----------------------------------------------------------------------------
\* Positions between taking the lock and giving it up.
Holding == {"p_check", "p_push", "p_notify", "p_ret",
            "t_check", "t_notify", "t_pop", "t_ret"}

\* C16. Mutual exclusion: at most one thread is between taking the lock and
\* giving it up, and it is the holder; the tests of the length, the append and
\* the pop are made there; a parked thread does not hold the lock, and goes
\* from parked to taking the lock, never straight to the test.
MutualExclusion ==
  /\ [](/\ Cardinality({t \in Threads : pc[t] \in Holding}) <= 1
        /\ \A t \in Threads : pc[t] \in Holding <=> lock = t
        /\ \A t \in Parked : lock # t /\ t \in nonempty \cup nonfull)
  /\ [][/\ items' # items =>
             (lock \in Threads /\ lock' = lock /\ pc[lock] \in {"p_push", "t_pop"})
        /\ \A t \in Threads :
             (t \in Parked /\ pc'[t] # pc[t]) =>
               (pc'[t] \in {"p_lock", "t_lock"} /\ lock' # t)]_vars

\* One thread holds the lock, one is parked, and one that was woken waits for
\* the lock.
MutualExclusionWitness ==
  \E t, u, v \in Threads :
    /\ lock = t
    /\ pc[u] \in {"p_wait", "t_wait"}
    /\ pc[v] \in {"p_lock", "t_lock"} /\ waited[v]

\* C17. Fixed capacity: the buffer's capacity(), against which put compares
\* the length, is in every state what it was right after construction; put
\* never appends to a buffer whose length is that capacity, so the buffer
\* never reallocates, and no step of take changes the capacity.
FixedCapacity ==
  /\ [](qstate = "ready" =>
          /\ capacity \in VecDequeCapacity(count)
          /\ Len(items) <= capacity
          /\ \A t \in Threads : pc[t] = "p_push" => Len(items) # capacity)
  /\ [][qstate = "ready" => capacity' = capacity]_vars

\* The buffer is filled to its capacity, which is more than count, and a
\* producer is parked.
FixedCapacityWitness ==
  /\ Len(items) = capacity
  /\ capacity > count
  /\ \E t \in Threads : pc[t] = "p_wait"

----------------------------------------------------------------------------
\* No thread holds the lock, waits for it, or is on its way through put or
\* take: every thread is idle or parked.
Quiescent ==
  /\ lock = NoThread
  /\ \A t \in Threads : pc[t] \in {"idle", "p_wait", "t_wait"}

\* C18. No mixed deadlock: in a quiescent state a thread parked in take means
\* the buffer is empty and a thread parked in put means it is full, so no
\* quiescent state has a parked producer and a parked consumer.
NoMixedDeadlock ==
  Quiescent =>
    /\ (\E t \in Threads : pc[t] = "t_wait") => Len(items) = 0
    /\ (\E t \in Threads : pc[t] = "p_wait") => Len(items) = capacity
    /\ ~(\E t, u \in Threads : pc[t] = "t_wait" /\ pc[u] = "p_wait")

\* Quiescent with a parked producer: a put and a take have returned, the
\* buffer is full again.
NoMixedDeadlockWitness ==
  /\ Quiescent
  /\ \E t \in Threads : pc[t] = "p_wait"
  /\ takes_returned >= 1
  /\ Len(items) = capacity

----------------------------------------------------------------------------
\* C19. Per-producer order with competing producers: with several producers
\* and a single consumer, of two values put by the same producer the consumer
\* receives the one put earlier first, whatever the interleaving.
PerProducerOrder ==
  \A i, j \in DOMAIN take_hist :
    (i < j /\ take_hist[i][1] = take_hist[j][1]) => take_hist[i][2] > take_hist[j][2]

\* The consumer has received two values of one producer with a value of
\* another producer between them.
PerProducerOrderWitness ==
  /\ Len(take_hist) = 3
  /\ take_hist[1][1] = take_hist[3][1]
  /\ take_hist[1][1] # take_hist[2][1]
  /\ takes_returned = 3

====
